---- MODULE Spec2Model ----
(***************************************************************************)
(* Model of the geo-referenced spectral lookup pipeline of the Titan RT    *)
(* teaching tool: the ClickableImage coordinate mapper, the App's marker   *)
(* and geo-value state with its asynchronous geo-cube fetches, and the     *)
(* cached JSON loader with its spectral sampler.                           *)
(*                                                                         *)
(* Spec      the image panel: ClickableImage inside App.                   *)
(* SpecLoad  the data loader: loadJsonFile, sampleData, clearDataCache.    *)
(* SpecGeo   the geo-cube decoder: parseGeoCube, getGeoValue,              *)
(*           extractGeoValues and the App's render of the reading.         *)
(* SpecPlot  the spectral lookup: findClosestAngleIndex,                   *)
(*           createSpectralPlotData, processSpectralData, SpectralPlot.    *)
(* SpecSample  the spectral sampler: sampleData with any point budget.     *)
(* SpecApp   the App's loads over its mounts and unmounts.                 *)
(*                                                                         *)
(* Numbers.  A JS number is modelled as an exact fraction <<n, d>> with    *)
(* d > 0; <<0, 0>> stands for NaN (and for undefined, which behaves as NaN *)
(* in the arithmetic and comparisons used here).  Pointer positions are    *)
(* whole pixels.  Floating-point rounding error is not modelled.           *)
(***************************************************************************)
EXTENDS Integers, Sequences, FiniteSets, Bags, TLC

(***************************************************************************)
(* Bounds of the model.                                                    *)
(***************************************************************************)
\* user events (clicks, slider moves, layout changes) in one run
MaxEvents == 3
\* geo-cube fetches that may be in flight together
MaxInflight == 2

(***************************************************************************)
(* Inputs the environment supplies.                                        *)
(***************************************************************************)
\* natural <<width, height>> of the image assets: the x axis is shown
\* enlarged, the y axis reduced
NaturalSizes == {<<2, 24>>}
\* displayed <<width, height>> the layout may give the img element
DisplaySizes == {<<0, 0>>, <<12, 12>>, <<40, 12>>}
\* pointer <<x, y>> relative to the image's top-left corner, in pixels:
\* corners and edges of both shown sizes, points 10 pixels apart, and points
\* just outside each edge
Clicks == {<<0, 0>>, <<10, 0>>, <<0, 12>>, <<10, 10>>, <<12, 12>>, <<40, 12>>,
           <<-1, 0>>, <<0, -1>>, <<41, 0>>, <<0, 13>>}
\* positions of the phase-angle slider
Phases == {0, 1}

(***************************************************************************)
(* JS numbers.                                                             *)
(***************************************************************************)
NaN == <<0, 0>>
Num(n) == <<n, 1>>
IsNum(v) == v[2] > 0
Abs(n) == IF n < 0 THEN -n ELSE n

\* Math.round(n / d) for d > 0: the nearest integer, halves upwards
JSRound(n, d) == (2 * n + d) \div (2 * d)

\* a * b for a whole number a of pixels and a fraction b
Times(a, b) == IF IsNum(a) /\ IsNum(b) THEN <<a[1] * b[1], a[2] * b[2]>> ELSE NaN

\* Math.abs(v - rel) < limit, false when v is NaN
Within(v, rel, limit) == IsNum(v) /\ Abs(v[1] - rel * v[2]) < limit * v[2]

\* a and b are the same number
SameNum(a, b) == IsNum(a) /\ IsNum(b) /\ a[1] * b[2] = b[1] * a[2]

Min(a, b) == IF a < b THEN a ELSE b
Max(a, b) == IF a > b THEN a ELSE b

(***************************************************************************)
(* State.                                                                  *)
(***************************************************************************)
VARIABLES
  \* App (React state)
  phaseAngle,       \* sliders.phaseAngle, the slider position
  currentImage,     \* [present, phase]: the URL of the image for a phase angle
  clickedPosition,  \* [present, x, y]: native coordinates of the marker
  geoValues,        \* [present, phase, x, y, error, reading]: the geo reading shown
  loadingGeo,       \* BOOLEAN
  \* ClickableImage (React state and the effect's load listener)
  clickPosition,    \* the marker: [present, displayX, displayY, naturalX, naturalY]
  loadListener,     \* BOOLEAN: updateImageSize is registered for 'load'
  \* the img element (DOM)
  imgComplete,      \* img.complete
  layout,           \* <<width, height>> the page layout gives a shown image
  imgNatural,       \* <<img.naturalWidth, img.naturalHeight>>
  \* requests in flight
  geoInflight,      \* bag of [phase, x, y]: extractGeoValues calls awaiting
  imgInflight,      \* bag of phases: loadPds4Image calls awaiting
  \* the last user event and what its handler did (history)
  event

uiVars == <<phaseAngle, currentImage, clickedPosition, geoValues, loadingGeo,
            clickPosition, loadListener,
            imgComplete, layout, imgNatural, geoInflight, imgInflight, event>>

\* <<img.offsetWidth, img.offsetHeight>>: an img element without image data
\* (nothing loaded yet) takes no room
OffsetOf(nat, lay) == IF nat[1] > 0 /\ nat[2] > 0 THEN lay ELSE <<0, 0>>
offsetSize == OffsetOf(imgNatural, layout)

NoImage == [present |-> FALSE, phase |-> 0]
NoPosition == [present |-> FALSE, x |-> NaN, y |-> NaN]
NoGeo == [present |-> FALSE, phase |-> 0, x |-> NaN, y |-> NaN, error |-> FALSE,
          reading |-> <<>>]
NoMarker == [present |-> FALSE, displayX |-> NaN, displayY |-> NaN,
             naturalX |-> NaN, naturalY |-> NaN]
NoEvent == [n |-> 0, kind |-> "none", relX |-> 0, relY |-> 0,
            disp |-> <<0, 0>>, nat |-> <<0, 0>>,
            outcome |-> "none", cbX |-> NaN, cbY |-> NaN, fetches |-> 0]

\* the record of a user event: its number and kind, the pointer position,
\* the displayed and natural size the img element had when it happened, the
\* handler's outcome, the coordinates it gave onImageClick, and the number
\* of fetchGeoValues calls the event caused
UserEvent(kind, relX, relY, outcome, cbX, cbY, fetches) ==
  [n |-> event.n + 1, kind |-> kind, relX |-> relX, relY |-> relY,
   disp |-> offsetSize, nat |-> imgNatural,
   outcome |-> outcome, cbX |-> cbX, cbY |-> cbY, fetches |-> fetches]

(***************************************************************************)
(* ClickableImage.handleImageClick                                         *)
(***************************************************************************)
\* the bounds test of the click against the displayed image
InBoundsNoBottom(relX, relY, disp) ==
  relX >= 0 /\ relX <= disp[1] /\ relY >= 0
InBounds(relX, relY, disp) ==
  relX >= 0 /\ relX <= disp[1] /\ relY >= 0 /\ relY <= disp[2]

\* Math.max(0, Math.min(v, naturalDim - 1))
ClampOffByOne(v, naturalDim) == Max(0, Min(v, naturalDim))
Clamp(v, naturalDim) == Max(0, Min(v, naturalDim - 1))

\* the clamped native coordinate of a display coordinate rel:
\* Math.round(rel * (naturalDim / displayDim)), clamped.  A zero displayDim
\* makes the scale Infinity (or NaN for 0/0), and 0 * Infinity is NaN.
NaturalCoord(rel, displayDim, naturalDim) ==
  IF displayDim = 0
  THEN IF rel = 0 \/ naturalDim = 0 THEN NaN
       ELSE IF rel > 0 THEN Num(Max(0, naturalDim - 1)) ELSE Num(0)
  ELSE Num(Clamp(JSRound(rel * naturalDim, displayDim), naturalDim))

\* the toggle test: the click is within 10 pixels of the marker on both axes
ToggleDistance == 10
NearMarkerEitherAxis(m, relX, relY) ==
  /\ m.present
  /\ \/ Within(m.displayX, relX, ToggleDistance)
     \/ Within(m.displayY, relY, ToggleDistance)
NearMarker(m, relX, relY) ==
  /\ m.present
  /\ Within(m.displayX, relX, ToggleDistance)
  /\ Within(m.displayY, relY, ToggleDistance)

\* what the handler does with a click at (relX, relY): the outcome, the new
\* marker, and the arguments it gives onImageClick
HandleImageClick(relX, relY) ==
  LET clampedX == NaturalCoord(relX, offsetSize[1], imgNatural[1])
      clampedY == NaturalCoord(relY, offsetSize[2], imgNatural[2])
      newPosition == [present |-> TRUE,
                      displayX |-> Num(relX), displayY |-> Num(relY),
                      naturalX |-> clampedX, naturalY |-> clampedY]
  IN  IF ~currentImage.present
      THEN [outcome |-> "ignored", marker |-> clickPosition, cbX |-> NaN, cbY |-> NaN]
      ELSE IF ~InBounds(relX, relY, offsetSize)
      THEN [outcome |-> "outside", marker |-> clickPosition, cbX |-> NaN, cbY |-> NaN]
      ELSE IF NearMarker(clickPosition, relX, relY)
      THEN [outcome |-> "cleared", marker |-> NoMarker, cbX |-> NaN, cbY |-> NaN]
      ELSE [outcome |-> "placed", marker |-> newPosition,
            cbX |-> clampedX, cbY |-> clampedY]

(***************************************************************************)
(* ClickableImage: the effect on [src, initialPosition]                    *)
(***************************************************************************)
\* the display position of a native coordinate: x * (offsetDim / naturalDim)
Project(x, offsetDim, naturalDim) == Times(x, <<offsetDim, naturalDim>>)

\* updateImageSize, for initialPosition pos and the marker m it finds, with
\* the img element measuring offs (displayed) and nat (natural)
UpdateImageSizeKeepsDisplay(pos, m, offs, nat) ==
  [marker |-> IF pos.present THEN m ELSE NoMarker]
UpdateImageSize(pos, m, offs, nat) ==
  [marker |->
     IF pos.present
     THEN IF nat[1] > 0 /\ nat[2] > 0 /\ offs[1] > 0 /\ offs[2] > 0
          THEN [present |-> TRUE,
                displayX |-> Project(pos.x, offs[1], nat[1]),
                displayY |-> Project(pos.y, offs[2], nat[2]),
                naturalX |-> pos.x, naturalY |-> pos.y]
          ELSE m
     ELSE NoMarker]

\* the effect body: measure now when the image is complete, else wait for
\* its load event.  A listener of the previous run was removed by its cleanup.
ImageEffect(pos, m, complete, offs, nat) ==
  IF complete
  THEN [listener |-> FALSE] @@ UpdateImageSize(pos, m, offs, nat)
  ELSE [listener |-> TRUE, marker |-> m]

(***************************************************************************)
(* App: fetchGeoValues and the effect that calls it                        *)
(***************************************************************************)
\* the extractGeoValues call fetchGeoValues starts for (x, y): the phase
\* angle in degrees is the slider position times 5
GeoRequest(slider, x, y) == [phase |-> slider * 5, x |-> x, y |-> y]

One(r) == SetToBag({r})

\* the calls of fetchGeoValues made by the effect on
\* [sliders.phaseAngle, clickedPosition, fetchGeoValues] after a render in
\* which one of them changed
GeoEffect(changed, slider, pos) ==
  IF changed /\ pos.present THEN One(GeoRequest(slider, pos.x, pos.y)) ELSE EmptyBag

InflightRoom(bag, more) == BagCardinality(bag) + more <= MaxInflight

\* App.handleImageClick, called by the marker handler with outcome h: the
\* parent's new clickedPosition and geoValues and the fetchGeoValues call
OnImageClick(h) ==
  IF h.outcome = "cleared"
  THEN [clickedPosition |-> NoPosition, geoValues |-> NoGeo, calls |-> EmptyBag]
  ELSE IF h.outcome = "placed"
  THEN [clickedPosition |-> [present |-> TRUE, x |-> h.cbX, y |-> h.cbY],
        geoValues |-> geoValues,
        calls |-> One(GeoRequest(phaseAngle, h.cbX, h.cbY))]
  ELSE [clickedPosition |-> clickedPosition, geoValues |-> geoValues,
        calls |-> EmptyBag]

(***************************************************************************)
(* Actions of the image panel.                                             *)
(***************************************************************************)
\* A click at (relX, relY) relative to the image: the marker handler, the
\* parent's handler it calls, and the effects of the render they cause.
Click(relX, relY) ==
  LET h == HandleImageClick(relX, relY)
      app == OnImageClick(h)
      \* a placed marker gives the parent a new clickedPosition object
      posChanged == h.outcome = "placed"
                    \/ (h.outcome = "cleared" /\ clickedPosition.present)
      calls == app.calls (+) GeoEffect(posChanged, phaseAngle, app.clickedPosition)
      eff == IF posChanged
             THEN ImageEffect(app.clickedPosition, h.marker,
                              imgComplete, offsetSize, imgNatural)
             ELSE [listener |-> loadListener, marker |-> h.marker]
  IN  /\ event.n < MaxEvents
      /\ InflightRoom(geoInflight, BagCardinality(calls))
      /\ clickPosition' = eff.marker
      /\ loadListener' = eff.listener
      /\ clickedPosition' = app.clickedPosition
      /\ geoValues' = app.geoValues
      /\ loadingGeo' = IF BagCardinality(calls) > 0 THEN TRUE ELSE loadingGeo
      /\ geoInflight' = geoInflight (+) calls
      /\ event' = UserEvent("click", relX, relY, h.outcome, h.cbX, h.cbY,
                             BagCardinality(calls))
      /\ UNCHANGED <<phaseAngle, currentImage, imgComplete, layout,
                     imgNatural, imgInflight>>

\* The phase-angle slider is moved to p: the loadImage effect starts
\* loadPds4Image, and the geo effect fetches again for a marked position.
SetPhase(p) ==
  LET calls == GeoEffect(TRUE, p, clickedPosition)
  IN  /\ event.n < MaxEvents
      /\ p # phaseAngle
      /\ InflightRoom(geoInflight, BagCardinality(calls))
      /\ InflightRoom(imgInflight, 1)
      /\ phaseAngle' = p
      /\ imgInflight' = imgInflight (+) One(p)
      /\ geoInflight' = geoInflight (+) calls
      /\ loadingGeo' = IF BagCardinality(calls) > 0 THEN TRUE ELSE loadingGeo
      /\ event' = UserEvent("phase", 0, 0, "none", NaN, NaN, BagCardinality(calls))
      /\ UNCHANGED <<currentImage, clickedPosition, geoValues, clickPosition,
                     loadListener, imgComplete, layout, imgNatural>>

\* The layout gives the img element another displayed size.  No state or
\* prop of ClickableImage changes, so no effect runs.
Resize(d) ==
  /\ event.n < MaxEvents
  /\ d # layout
  /\ layout' = d
  /\ event' = UserEvent("resize", 0, 0, "none", NaN, NaN, 0)
  /\ UNCHANGED <<phaseAngle, currentImage, clickedPosition, geoValues, loadingGeo,
                 clickPosition, loadListener,
                 imgComplete, imgNatural, geoInflight, imgInflight>>

\* A loadPds4Image call for slider position p settles and loadImage stores
\* the URL (ok) or null in currentImage.  A changed URL re-renders the img
\* with another src; null unmounts ClickableImage, a first URL mounts it.
\* complete and nat are what the img element reports when the effect runs.
ImageFetched(p, ok, complete, nat) ==
  LET new == IF ok THEN [present |-> TRUE, phase |-> p] ELSE NoImage
      \* useState(initialPosition) of a mounting ClickableImage: the parent's
      \* object, which has no display coordinates
      mounted == IF clickedPosition.present
                 THEN [NoMarker EXCEPT !.present = TRUE] ELSE NoMarker
      m == IF currentImage.present THEN clickPosition ELSE mounted
      \* while a new src loads, the img keeps showing what it showed
      natl == IF complete THEN nat ELSE IF currentImage.present THEN imgNatural ELSE <<0, 0>>
      eff == ImageEffect(clickedPosition, m, complete, OffsetOf(natl, layout), natl)
  IN  /\ BagIn(p, imgInflight)
      /\ imgInflight' = imgInflight (-) One(p)
      /\ currentImage' = new
      /\ IF new = currentImage
         THEN UNCHANGED <<clickPosition, loadListener, imgComplete, imgNatural>>
         ELSE IF ~new.present
         THEN /\ clickPosition' = NoMarker
              /\ loadListener' = FALSE
              /\ imgComplete' = FALSE
              /\ imgNatural' = <<0, 0>>
         ELSE /\ imgComplete' = complete
              /\ imgNatural' = natl
              /\ clickPosition' = eff.marker
              /\ loadListener' = eff.listener
      /\ UNCHANGED <<phaseAngle, clickedPosition, geoValues, loadingGeo,
                     layout, geoInflight, event>>

\* The img element finishes loading its src and fires 'load': a registered
\* updateImageSize runs with the parent's current clickedPosition.
ImgLoad(nat) ==
  LET upd == UpdateImageSize(clickedPosition, clickPosition,
                             OffsetOf(nat, layout), nat)
  IN  /\ currentImage.present
      /\ ~imgComplete
      /\ imgComplete' = TRUE
      /\ imgNatural' = nat
      /\ IF loadListener
         THEN clickPosition' = upd.marker
         ELSE UNCHANGED clickPosition
      /\ UNCHANGED <<phaseAngle, currentImage, clickedPosition, geoValues,
                     loadingGeo, loadListener, layout, geoInflight, imgInflight,
                     event>>

(***************************************************************************)
(* The data loader: dataCache, sampleData, loadJsonFile, clearDataCache.   *)
(***************************************************************************)
\* calls of loadJsonFile in one run
MaxCalls == 3
\* calls of clearDataCache in one run
MaxClears == 1
\* wavelength counts of the spectral libraries the server may deliver
LibraryLengths == {0, 2, 3}

LibraryUrl == "/data/init_gui_library.json"
ModelUrl == "/data/init_gui_model.json"
Urls == {LibraryUrl, ModelUrl}

\* A spectral library with n wavelengths: wavelength i is the number i, and
\* entry i of row r of a case table is a number that names table, row and i.
Row(t, r, n) == [i \in 1 .. n |-> 100 * t + 10 * r + i]
Library(n) ==
  [wavelength |-> [i \in 1 .. n |-> i],
   inc |-> <<0, 30, 30>>, emi |-> <<0>>, daz |-> <<0, 0>>,
   standard |-> <<Row(1, 1, n), Row(1, 2, n)>>,
   no_ch4 |-> <<Row(2, 1, n), Row(2, 2, n)>>,
   no_haze |-> <<Row(3, 1, n), Row(3, 2, n)>>]

\* every step-th entry of seq, from the first
EveryNth(seq, step) ==
  [k \in 1 .. ((Len(seq) + step - 1) \div step) |-> seq[(k - 1) * step + 1]]

\* [...new Set(seq)]: the distinct values, in order of first occurrence
RECURSIVE Unique(_)
Unique(seq) ==
  IF seq = <<>> THEN <<>>
  ELSE LET init == Unique(SubSeq(seq, 1, Len(seq) - 1))
           last == seq[Len(seq)]
       IN  IF \E i \in 1 .. Len(init) : init[i] = last
           THEN init ELSE Append(init, last)

\* sampleData(data, maxPoints) for a library that has a wavelength array
SampleData(data, maxPoints) ==
  LET n == Len(data.wavelength)
      step == Max(1, n \div maxPoints)
      evenly == EveryNth(data.wavelength, step)
      sampledWavelength ==
        IF Len(evenly) < maxPoints /\ n > 0
        THEN Append(evenly, data.wavelength[n]) ELSE evenly
      sampleSpectralArray(spectralArray) ==
        [r \in 1 .. Len(spectralArray) |-> EveryNth(spectralArray[r], step)]
  IN  [wavelength |-> sampledWavelength,
       inc |-> Unique(data.inc), emi |-> Unique(data.emi), daz |-> Unique(data.daz),
       standard |-> sampleSpectralArray(data.standard),
       no_ch4 |-> sampleSpectralArray(data.no_ch4),
       no_haze |-> sampleSpectralArray(data.no_haze)]

VARIABLES
  dataCache,   \* the Map: url -> [present, data]
  pending,     \* bag of urls: loadJsonFile calls awaiting their fetch
  fetched,     \* url -> fetches started since the cache was last cleared (history)
  returned,    \* the values handed to callers: set of [url, data, hit] (history)
  failed,      \* url -> calls that rethrew since the last clear (history)
  nCalls,      \* calls made (bounds the run)
  nClears      \* clears made (bounds the run)

loadVars == <<dataCache, pending, fetched, returned, failed, nCalls, nClears>>

\* a value held for a url: the parsed document it came from, the value
\* itself, and how many times it went through sampleData (history)
NoData == [present |-> FALSE, source |-> 0, value |-> <<>>, passes |-> 0]
Parsed(n) == [present |-> TRUE, source |-> n, value |-> Library(n), passes |-> 0]

\* maxPoints of the loader's sampleData call
SampleMaxPoints == 100

\* the sampling step of loadJsonFile: only the spectral library is sampled
SampleOnLoad(url, data) ==
  IF url = LibraryUrl
  THEN [data EXCEPT !.value = SampleData(data.value, SampleMaxPoints),
                    !.passes = data.passes + 1]
  ELSE data

\* what a call that finds the url cached returns
CacheHitResampled(url) == SampleOnLoad(url, dataCache[url])
CacheHit(url) == dataCache[url]

\* loadJsonFile(url) is called: a cached value is returned at once, else the
\* fetch is started and the call waits for it.
LoadJsonFile(url) ==
  /\ nCalls < MaxCalls
  /\ nCalls' = nCalls + 1
  /\ IF dataCache[url].present
     THEN /\ returned' = returned \cup {[url |-> url, data |-> CacheHit(url), hit |-> TRUE]}
          /\ UNCHANGED <<dataCache, pending, fetched, failed, nClears>>
     ELSE /\ pending' = pending (+) One(url)
          /\ fetched' = [fetched EXCEPT ![url] = @ + 1]
          /\ UNCHANGED <<dataCache, returned, failed, nClears>>

\* outcomes of a fetch: a document that parses and passes the checks; an
\* HTTP status that is not ok; text that is no JSON; JSON without a
\* wavelength array (the log line after sampling throws); heap use above
\* the limit after sampling
Outcomes == {"ok", "http", "parse", "shape", "memory"}

\* does a waiting call with this outcome throw?
Throws(url, outcome) ==
  \/ outcome \in {"http", "parse"}
  \/ url = LibraryUrl /\ outcome \in {"shape", "memory"}

\* A waiting call gets its response, a document with n wavelengths when it
\* parses: it samples, caches and returns the value, or rethrows.
LoadSettles(url, outcome, n) ==
  LET data == SampleOnLoad(url, Parsed(n))
  IN  /\ BagIn(url, pending)
      /\ pending' = pending (-) One(url)
      /\ IF Throws(url, outcome)
         THEN /\ failed' = [failed EXCEPT ![url] = @ + 1]
              /\ UNCHANGED <<dataCache, returned>>
         ELSE /\ dataCache' = [dataCache EXCEPT ![url] = data]
              /\ returned' = returned \cup {[url |-> url, data |-> data, hit |-> FALSE]}
              /\ UNCHANGED failed
      /\ UNCHANGED <<fetched, nCalls, nClears>>

\* clearDataCache()
ClearDataCache ==
  /\ nClears < MaxClears
  /\ nClears' = nClears + 1
  /\ dataCache' = [u \in Urls |-> NoData]
  /\ fetched' = [u \in Urls |-> 0]
  /\ failed' = [u \in Urls |-> 0]
  /\ UNCHANGED <<pending, returned, nCalls>>

LoadInit ==
  /\ dataCache = [u \in Urls |-> NoData]
  /\ pending = EmptyBag
  /\ fetched = [u \in Urls |-> 0]
  /\ returned = {}
  /\ failed = [u \in Urls |-> 0]
  /\ nCalls = 0
  /\ nClears = 0

\* The App has mounted: no image yet, the first loadPds4Image in flight.
PanelInit ==
  /\ phaseAngle = 0
  /\ currentImage = NoImage
  /\ clickedPosition = NoPosition
  /\ geoValues = NoGeo
  /\ loadingGeo = FALSE
  /\ clickPosition = NoMarker
  /\ loadListener = FALSE
  /\ imgComplete = FALSE
  /\ layout \in DisplaySizes
  /\ imgNatural = <<0, 0>>
  /\ geoInflight = EmptyBag
  /\ imgInflight = One(0)
  /\ event = NoEvent

(***************************************************************************)
(* The geo-cube decoder: parseGeoCube, getGeoValue, extractGeoValues, and  *)
(* the App's use of the reading.                                           *)
(*                                                                         *)
(* A byte buffer is [byteLength, seed]: the seed names the file's content. *)
(* The 32-bit float stored in 4-byte slot i of the buffer with seed s is   *)
(* the value [kind |-> "float", seed |-> s, at |-> i], so a value read     *)
(* from a cube tells which cube and which slot it was read from.  A        *)
(* Float32Array is [length, seed].                                         *)
(***************************************************************************)
numBands == 9
numLines == 681
numSamples == 681
totalElements == numBands * numLines * numSamples

\* byte lengths of the buffers a fetch may deliver: empty, one byte short,
\* exact, one byte and one float too long
BufferLengths == {0, 4 * totalElements - 1, 4 * totalElements,
                  4 * totalElements + 1, 4 * totalElements + 4}
\* contents of the geo-cube files
Seeds == {1, 2}
\* lengths of the arrays getGeoValue may be handed: empty, bands 0..5 and
\* part of band 6 only, full size
ArrayLengths == {0, 6 * numLines * numSamples + 3, totalElements}
\* x and y arguments: in range, at and past both ends, fractional, NaN
GeoCoords == {Num(0), Num(1), Num(340), Num(680), Num(681), Num(-1),
              <<681, 2>>, <<-1, 2>>, NaN}
\* band arguments
GeoBands == {Num(b) : b \in 0 .. 8} \cup {Num(-1), Num(9), <<9, 2>>, NaN}

Float32(seed, i) == [kind |-> "float", seed |-> seed, at |-> i]
Null == [kind |-> "null", seed |-> 0, at |-> 0]
Undefined == [kind |-> "undefined", seed |-> 0, at |-> 0]
NoArray == [length |-> 0, seed |-> 0]

\* parseGeoCube: a DataView over the buffer, a Float32Array of
\* totalElements, filled by getFloat32(i * 4) for i = 0 .. totalElements - 1.
\* getFloat32 throws a RangeError when bytes i*4 .. i*4+3 are not all inside
\* the buffer, which first happens at the slot that holds the buffer's end;
\* bytes past slot totalElements - 1 are never read.
ParseGeoCube(buffer) ==
  IF (totalElements - 1) * 4 + 4 > buffer.byteLength
  THEN [thrown |-> TRUE, data |-> NoArray]
  ELSE [thrown |-> FALSE,
        data |-> [length |-> totalElements, seed |-> buffer.seed]]

\* Math.max(0, Math.min(Math.floor(v), size - 1)); NaN stays NaN
GeoClamp(v, size) ==
  IF IsNum(v) THEN Num(Max(0, Min(v[1] \div v[2], size - 1))) ELSE NaN

\* index = clampedBand * numLines * numSamples + clampedY * numSamples + clampedX
GeoIndexSwapped(cx, cy, cb) ==
  IF IsNum(cx) /\ IsNum(cy) /\ IsNum(cb)
  THEN Num(cb[1] * numLines * numSamples + cx[1] * numSamples + cy[1])
  ELSE NaN
GeoIndex(cx, cy, cb) ==
  IF IsNum(cx) /\ IsNum(cy) /\ IsNum(cb)
  THEN Num(cb[1] * numLines * numSamples + cy[1] * numSamples + cx[1])
  ELSE NaN

\* getGeoValue: the index it computes and the value it returns.  A NaN
\* index passes both comparisons of the range test (each is false) and
\* reads geoCubeData[NaN], which is undefined.
GetGeoValue(geoCubeData, x, y, band) ==
  LET clampedX == GeoClamp(x, numSamples)
      clampedY == GeoClamp(y, numLines)
      clampedBand == GeoClamp(band, numBands)
      index == GeoIndex(clampedX, clampedY, clampedBand)
  IN  [index |-> index,
       value |-> IF ~IsNum(index) THEN Undefined
                 ELSE IF index[1] < 0 \/ index[1] >= geoCubeData.length THEN Null
                 ELSE Float32(geoCubeData.seed, index[1])]

\* extractGeoValues after await loadGeoCubeFile: a rejected fetch or a throw
\* of parseGeoCube gives the error record; otherwise five lookups.  The
\* record has no azimuth property, so reading.azimuth is undefined.
ExtractGeoValues(fetchOk, buffer, x, y) ==
  LET parsed == ParseGeoCube(buffer)
      geoData == parsed.data
  IN  IF ~fetchOk \/ parsed.thrown
      THEN [lat |-> Null, lon |-> Null, phase |-> Null, incidence |-> Null,
            emis |-> Null, azimuth |-> Undefined, x |-> x, y |-> y,
            error |-> TRUE]
      ELSE [lat |-> GetGeoValue(geoData, x, y, Num(0)).value,
            lon |-> GetGeoValue(geoData, x, y, Num(1)).value,
            phase |-> GetGeoValue(geoData, x, y, Num(4)).value,
            incidence |-> GetGeoValue(geoData, x, y, Num(5)).value,
            emis |-> GetGeoValue(geoData, x, y, Num(6)).value,
            azimuth |-> Undefined, x |-> x, y |-> y, error |-> FALSE]

\* v !== null ? `${v.toFixed(n)}...` : 'N/A' in the App's render
ShowField(v) ==
  IF v.kind = "null" THEN "N/A"
  ELSE IF v.kind = "undefined" THEN "TypeError" ELSE "text"

\* v ?? 0: the angle handed to SpectralPlot
OrZero(v) == IF v.kind = "float" THEN v ELSE [kind |-> "zero", seed |-> 0, at |-> 0]

\* The App's render of geoValues: the error text, or the six lines of the
\* readout, whose evaluation throws when a field is undefined; and the
\* angles SpectralPlot is given.
RenderGeoValues(reading) ==
  LET fields == [lat |-> ShowField(reading.lat), lon |-> ShowField(reading.lon),
                 phase |-> ShowField(reading.phase),
                 incidence |-> ShowField(reading.incidence),
                 emis |-> ShowField(reading.emis),
                 azimuth |-> ShowField(reading.azimuth)]
  IN  [thrown |-> ~reading.error /\ \E f \in DOMAIN fields : fields[f] = "TypeError",
       fields |-> fields,
       incidenceAngle |-> OrZero(reading.incidence),
       emissionAngle |-> OrZero(reading.emis),
       azimuthAngle |-> OrZero(reading.azimuth)]

\* the file of a phase angle as the fetch delivers it, and a delivery that
\* ends one byte early
CubeFile == [byteLength |-> 4 * totalElements, seed |-> 1]
TruncatedFile == [byteLength |-> 4 * totalElements - 1, seed |-> 1]

\* fetchGeoValues(x, y) is called: the loading flag is raised and
\* extractGeoValues starts for the selected phase angle.
FetchGeoValues(x, y) ==
  /\ InflightRoom(geoInflight, 1)
  /\ loadingGeo' = TRUE
  /\ geoInflight' = geoInflight (+) One(GeoRequest(phaseAngle, x, y))
  /\ UNCHANGED <<phaseAngle, currentImage, clickedPosition, geoValues,
                 clickPosition, loadListener, imgComplete, layout,
                 imgNatural, imgInflight, event>>

\* An extractGeoValues call r settles, with a reading (ok) or, the fetch
\* having failed or the buffer not decoding, with the error record:
\* fetchGeoValues stores it and drops the loading flag.  Nothing in the
\* render that follows calls fetchGeoValues.
GeoDone(r, ok) ==
  \E delivery \in IF ok THEN {<<TRUE, CubeFile>>}
                  ELSE {<<FALSE, CubeFile>>, <<TRUE, TruncatedFile>>} :
    LET values == ExtractGeoValues(delivery[1], delivery[2], r.x, r.y)
    IN  /\ BagIn(r, geoInflight)
        /\ geoInflight' = geoInflight (-) One(r)
        /\ geoValues' = [present |-> TRUE, phase |-> r.phase, x |-> r.x, y |-> r.y,
                         error |-> values.error, reading |-> values]
        /\ loadingGeo' = FALSE
        /\ UNCHANGED <<phaseAngle, currentImage, clickedPosition, clickPosition,
                       loadListener, imgComplete, layout,
                       imgNatural, imgInflight, event>>

VARIABLES
  geoCall      \* the call made to the decoder: what was called, with what,
               \* and what came back

geoVars == <<geoCall>>

NoCall == [kind |-> "none"]

\* parseGeoCube(buffer)
ParseCall(len, seed) ==
  LET buffer == [byteLength |-> len, seed |-> seed]
  IN  /\ geoCall.kind = "none"
      /\ geoCall' = [kind |-> "parse", buffer |-> buffer,
                      result |-> ParseGeoCube(buffer)]

\* getGeoValue(geoCubeData, x, y, band)
LookupCall(len, seed, x, y, band) ==
  LET geoCubeData == [length |-> len, seed |-> seed]
  IN  /\ geoCall.kind = "none"
      /\ geoCall' = [kind |-> "lookup", geoCubeData |-> geoCubeData,
                      x |-> x, y |-> y, band |-> band,
                      result |-> GetGeoValue(geoCubeData, x, y, band)]

\* extractGeoValues(phaseAngle, x, y), the fetch of the phase's file having
\* delivered the buffer or failed
ExtractCall(fetchOk, len, seed, x, y) ==
  LET buffer == [byteLength |-> len, seed |-> seed]
  IN  /\ geoCall.kind = "none"
      /\ geoCall' = [kind |-> "extract", fetchOk |-> fetchOk,
                      buffer |-> buffer, x |-> x, y |-> y,
                      result |-> ExtractGeoValues(fetchOk, buffer, x, y)]

\* setGeoValues(values) and the render that follows
RenderCall ==
  /\ geoCall.kind = "extract"
  /\ geoCall' = [kind |-> "render", reading |-> geoCall.result,
                 result |-> RenderGeoValues(geoCall.result)]

GeoInit == geoCall = NoCall

(***************************************************************************)
(* The spectral lookup: processSpectralData, findClosestAngleIndex,        *)
(* createSpectralPlotData, and the traces SpectralPlot builds.             *)
(*                                                                         *)
(* An angle is the fixed-point pair <<whole, frac>>, the number            *)
(* whole + frac * 1e-7 with 0 <= frac < 10^7; every angle and target used  *)
(* here is such a number exactly.  Indices are the 0-based indices of the  *)
(* code; sequences are 1-based, so a[i] of the code is a[i + 1] here.      *)
(***************************************************************************)
FracUnits == 10 ^ 7
Deg(whole) == <<whole, 0>>
AngleLess(a, b) == a[1] < b[1] \/ (a[1] = b[1] /\ a[2] < b[2])

\* Math.abs(a - b)
AbsDiff(a, b) ==
  LET big == IF AngleLess(a, b) THEN b ELSE a
      small == IF AngleLess(a, b) THEN a ELSE b
  IN  IF big[2] >= small[2]
      THEN <<big[1] - small[1], big[2] - small[2]>>
      ELSE <<big[1] - small[1] - 1, big[2] - small[2] + FracUnits>>

\* 1e-6
Tolerance == <<0, 10>>

\* angleArray.findIndex(angle => Math.abs(angle - targetAngle) < 1e-6),
\* scanning from index i
RECURSIVE FindIndexWithin(_, _, _)
FindIndexWithin(angleArray, targetAngle, i) ==
  IF i >= Len(angleArray) THEN -1
  ELSE IF AngleLess(AbsDiff(angleArray[i + 1], targetAngle), Tolerance) THEN i
  ELSE FindIndexWithin(angleArray, targetAngle, i + 1)

\* the loop of findClosestAngleIndex from index i on
RECURSIVE ClosestScan(_, _, _, _, _)
ClosestScan(angleArray, targetAngle, i, closestIndex, minDiff) ==
  IF i >= Len(angleArray) THEN closestIndex
  ELSE LET diff == AbsDiff(angleArray[i + 1], targetAngle)
       IN  IF AngleLess(diff, minDiff)
           THEN ClosestScan(angleArray, targetAngle, i + 1, i, diff)
           ELSE ClosestScan(angleArray, targetAngle, i + 1, closestIndex, minDiff)

FindClosestNoExactMatch(angleArray, targetAngle) ==
  IF Len(angleArray) = 0 THEN 0
  ELSE ClosestScan(angleArray, targetAngle, 1, 0, AbsDiff(angleArray[1], targetAngle))
FindClosestAngleIndex(angleArray, targetAngle) ==
  IF Len(angleArray) = 0 THEN 0
  ELSE LET exactIndex == FindIndexWithin(angleArray, targetAngle, 0)
       IN  IF exactIndex # -1 THEN exactIndex
           ELSE ClosestScan(angleArray, targetAngle, 1, 0,
                            AbsDiff(angleArray[1], targetAngle))

\* the angleCombinations of processSpectralData, in the order the three
\* nested loops push them
AngleCombinations(inc, emi, daz) ==
  [n \in 1 .. Len(inc) * Len(emi) * Len(daz) |->
     LET i == (n - 1) \div (Len(emi) * Len(daz))
         j == ((n - 1) % (Len(emi) * Len(daz))) \div Len(daz)
         k == (n - 1) % Len(daz)
     IN  [incidence |-> inc[i + 1], emission |-> emi[j + 1], azimuth |-> daz[k + 1],
          index |-> i * Len(emi) * Len(daz) + j * Len(daz) + k]]

ProcessSpectralData(spectralData) ==
  [wavelength |-> spectralData.wavelength,
   inc |-> spectralData.inc, emi |-> spectralData.emi, daz |-> spectralData.daz,
   standard |-> spectralData.standard, no_ch4 |-> spectralData.no_ch4,
   no_haze |-> spectralData.no_haze,
   angleCombinations |->
     AngleCombinations(spectralData.inc, spectralData.emi, spectralData.daz)]

\* angleIndex of createSpectralPlotData
AngleIndexEmissionStride(incidenceIndex, emissionIndex, azimuthIndex, emissionLength, azimuthLength) ==
  incidenceIndex * emissionLength * azimuthLength
  + emissionIndex * emissionLength + azimuthIndex
AngleIndex(incidenceIndex, emissionIndex, azimuthIndex, emissionLength, azimuthLength) ==
  incidenceIndex * emissionLength * azimuthLength
  + emissionIndex * azimuthLength + azimuthIndex

\* table && table[angleIndex] ? table[angleIndex] : []  (an absent table is
\* modelled as the table without rows)
RowOrEmptyFirstRow(table, angleIndex) ==
  IF angleIndex < Len(table) THEN table[angleIndex + 1]
  ELSE IF Len(table) > 0 THEN table[1] ELSE <<>>
RowOrEmpty(table, angleIndex) ==
  IF angleIndex < Len(table) THEN table[angleIndex + 1] ELSE <<>>

Cases == {"standard", "no_ch4", "no_haze"}

\* spectralValues[i] || 0: the entry, or 0 when the row has no entry i or
\* the entry is the falsy number 0
IntensityAt(spectralValues, i) ==
  IF i <= Len(spectralValues) /\ spectralValues[i] # 0 THEN spectralValues[i] ELSE 0

\* wavelength.map((w, i) => ({ wavelength: w, intensity: spectralValues[i] || 0 }))
PlotPairsPerRowEntry(wavelength, spectralValues) ==
  [i \in 1 .. Len(spectralValues) |->
     [wavelength |-> IF i <= Len(wavelength) THEN wavelength[i] ELSE 0,
      intensity |-> IntensityAt(spectralValues, i)]]
PlotPairs(wavelength, spectralValues) ==
  [i \in 1 .. Len(wavelength) |->
     [wavelength |-> wavelength[i],
      intensity |-> IntensityAt(spectralValues, i)]]

\* createSpectralPlotData for a processedData with a wavelength axis: the
\* three matched indices, the row index, the row selected for the case and
\* the pairs returned.  No statement of the function throws.
CreateSpectralPlotData(processedData, incidenceAngle, emissionAngle, azimuthAngle, caseType) ==
  LET incidenceIndex == FindClosestAngleIndex(processedData.inc, incidenceAngle)
      emissionIndex == FindClosestAngleIndex(processedData.emi, emissionAngle)
      azimuthIndex == FindClosestAngleIndex(processedData.daz, azimuthAngle)
      angleIndex == AngleIndex(incidenceIndex, emissionIndex, azimuthIndex,
                               Len(processedData.emi), Len(processedData.daz))
      spectralValues == RowOrEmpty(processedData[caseType], angleIndex)
  IN  [incidenceIndex |-> incidenceIndex, emissionIndex |-> emissionIndex,
       azimuthIndex |-> azimuthIndex, angleIndex |-> angleIndex,
       spectralValues |-> spectralValues, thrown |-> FALSE,
       data |-> PlotPairs(processedData.wavelength, spectralValues)]

\* the effect of SpectralPlot: one trace for every selected case whose data
\* is not empty
SpectralPlotTraces(processedData, incidenceAngle, emissionAngle, azimuthAngle, selectedCases) ==
  LET data(c) == CreateSpectralPlotData(processedData, incidenceAngle,
                                        emissionAngle, azimuthAngle, c).data
  IN  [c \in {s \in selectedCases : Len(data(s)) > 0} |->
         [x |-> [i \in 1 .. Len(data(c)) |-> data(c)[i].wavelength],
          y |-> [i \in 1 .. Len(data(c)) |-> data(c)[i].intensity]]]

\* spectral libraries as SpectralPlot receives them: "full" has the axes
\* 4 x 4 x 12 with a complete standard table, a no_ch4 table that ends at
\* row 99 and no no_haze table; "near" has two incidence angles closer
\* together than the tolerance; "emptyInc" has no incidence angles;
\* "short" has 2 x 2 x 2 axes over tables of 5 rows; "ragged" has three
\* wavelengths over rows that are shorter than the axis, longer than it,
\* hold zeros, or are empty
PlotLibraryNames == {"full", "near", "emptyInc", "short", "ragged"}
DegSeq(from, step, n) == [i \in 1 .. n |-> Deg(from + (i - 1) * step)]
PlotRow(t, r) == <<1000 * t + 2 * r + 1, 1000 * t + 2 * r + 2>>
PlotTable(t, rows) == [r \in 1 .. rows |-> PlotRow(t, r - 1)]
PlotLibrary(name) ==
  CASE name = "full" ->
         [wavelength |-> <<1, 2>>,
          inc |-> DegSeq(0, 30, 4), emi |-> DegSeq(0, 30, 4), daz |-> DegSeq(0, 30, 12),
          standard |-> PlotTable(1, 192), no_ch4 |-> PlotTable(2, 100),
          no_haze |-> <<>>]
    [] name = "near" ->
         [wavelength |-> <<1, 2>>,
          inc |-> << <<30, 5>>, Deg(30) >>, emi |-> <<Deg(0)>>, daz |-> <<Deg(0)>>,
          standard |-> PlotTable(1, 2), no_ch4 |-> PlotTable(2, 2),
          no_haze |-> PlotTable(3, 2)]
    [] name = "emptyInc" ->
         [wavelength |-> <<1, 2>>,
          inc |-> <<>>, emi |-> DegSeq(0, 30, 2), daz |-> DegSeq(0, 30, 2),
          standard |-> PlotTable(1, 4), no_ch4 |-> PlotTable(2, 4),
          no_haze |-> PlotTable(3, 4)]
    [] name = "short" ->
         [wavelength |-> <<1, 2>>,
          inc |-> DegSeq(0, 30, 2), emi |-> DegSeq(0, 30, 2), daz |-> DegSeq(0, 30, 2),
          standard |-> PlotTable(1, 5), no_ch4 |-> PlotTable(2, 5),
          no_haze |-> PlotTable(3, 5)]
    [] name = "ragged" ->
         [wavelength |-> <<7, 8, 9>>,
          inc |-> <<Deg(30)>>, emi |-> DegSeq(0, 30, 2), daz |-> DegSeq(0, 30, 2),
          standard |-> << <<11, 12>>, <<21, 22, 23, 24>>, <<0, 32, 0>>, <<>> >>,
          no_ch4 |-> << <<>>, <<0, 0, 0>>, <<41, 42, 43, 44>>, <<51>> >>,
          no_haze |-> << <<61, 62, 63>>, <<71, 0>> >>]

\* target angles: on a grid value, between two, at the middle of two, and
\* within and at the tolerance of a grid value
IncTargets == {Deg(60), Deg(29), <<30, 1>>, Deg(45), <<30, 3>>, <<30, 10>>}
EmiTargets == {Deg(30), Deg(0), Deg(100)}
AzTargets == {Deg(210), Deg(0), Deg(345), Deg(-20)}
\* angle arrays handed to findClosestAngleIndex: empty, a grid, two values
\* closer than the tolerance, unsorted with a repeated value, the azimuths
AngleArrays == {<<>>, DegSeq(0, 30, 4), << <<30, 5>>, Deg(30) >>,
                <<Deg(60), Deg(30), Deg(60)>>, DegSeq(0, 30, 12)}

VARIABLES
  plotCall     \* the call made to the spectral lookup: what was called,
               \* with what, and what came back

plotVars == <<plotCall>>

\* findClosestAngleIndex(angleArray, targetAngle); every path of the function
\* returns an index, none throws
FindCall(angleArray, targetAngle) ==
  /\ plotCall.kind = "none"
  /\ plotCall' = [kind |-> "find", angleArray |-> angleArray,
                  targetAngle |-> targetAngle,
                  result |-> FindClosestAngleIndex(angleArray, targetAngle),
                  thrown |-> FALSE]

\* createSpectralPlotData(processedData, incidenceAngle, emissionAngle,
\* azimuthAngle, caseType) on the processed library
PlotCall(name, incidenceAngle, emissionAngle, azimuthAngle, caseType) ==
  /\ plotCall.kind = "none"
  /\ plotCall' = [kind |-> "plot", library |-> name,
                  incidenceAngle |-> incidenceAngle,
                  emissionAngle |-> emissionAngle,
                  azimuthAngle |-> azimuthAngle, caseType |-> caseType,
                  result |-> CreateSpectralPlotData(
                               ProcessSpectralData(PlotLibrary(name)),
                               incidenceAngle, emissionAngle, azimuthAngle,
                               caseType)]

\* the plot effect of SpectralPlot for the selected cases
TracesCall(name, incidenceAngle, emissionAngle, azimuthAngle, selectedCases) ==
  /\ plotCall.kind = "none"
  /\ plotCall' = [kind |-> "traces", library |-> name,
                  incidenceAngle |-> incidenceAngle,
                  emissionAngle |-> emissionAngle,
                  azimuthAngle |-> azimuthAngle,
                  selectedCases |-> selectedCases,
                  result |-> SpectralPlotTraces(
                               ProcessSpectralData(PlotLibrary(name)),
                               incidenceAngle, emissionAngle, azimuthAngle,
                               selectedCases)]

PlotInit == plotCall = NoCall

(***************************************************************************)
(* The spectral sampler called on its own: sampleData(data, maxPoints).    *)
(***************************************************************************)
\* wavelength counts and point budgets handed to sampleData
SampleLengths == 0 .. 13
SampleBudgets == {1, 2, 3, 4, 5, 100}

VARIABLES
  sampleCall   \* the call made to sampleData: with what, and what came back

sampleVars == <<sampleCall>>

\* sampleData(Library(n), maxPoints)
SampleCall(n, maxPoints) ==
  /\ sampleCall.kind = "none"
  /\ sampleCall' = [kind |-> "sample", n |-> n, maxPoints |-> maxPoints,
                    result |-> SampleData(Library(n), maxPoints)]

SampleInit == sampleCall = NoCall

(***************************************************************************)
(* App: the spectral-library load effect and the cleanup effect            *)
(***************************************************************************)
MaxMounts == 2
\* positions fetchGeoValues is called with
FetchCoords == {Num(0), Num(1)}

VARIABLES
  appMounted,    \* is an App instance mounted?
  appInstance,   \* the number of App instances mounted so far
  appPending,    \* the instances whose loadJsonFile call has not settled
  appLoads,      \* loadJsonFile calls made by the mounted instance
  spectralData,  \* App state: the library, or NoData for null
  dataLoaded,    \* App state
  loading,       \* App state
  error          \* App state: is an error message set?

appVars == <<appMounted, appInstance, appPending, appLoads,
             spectralData, dataLoaded, loading, error>>

\* `if (dataLoaded) return;`: does a run of the effect call loadSpectralData?
LoadSpectralDataRunsAgain(loaded) == TRUE
LoadSpectralDataRuns(loaded) == ~loaded

\* loadSpectralData calls made by the run of the effect on [dataLoaded] that
\* follows a render with dataLoaded = loaded
LoadEffectCalls(loaded) == IF LoadSpectralDataRuns(loaded) THEN 1 ELSE 0

\* An App mounts with the initial state and its effects run: the load effect
\* sets loading, clears error and awaits loadJsonFile.  A cached library is
\* returned at once and the rest of loadSpectralData runs before any other
\* event.
AppMount ==
  LET hit == dataCache[LibraryUrl].present
  IN  /\ ~appMounted
      /\ appInstance < MaxMounts
      /\ LoadSpectralDataRuns(FALSE)
      /\ LoadJsonFile(LibraryUrl)
      /\ appMounted' = TRUE
      /\ appInstance' = appInstance + 1
      /\ error' = FALSE
      /\ IF hit
         THEN /\ spectralData' = CacheHit(LibraryUrl)
              /\ loading' = FALSE
              /\ dataLoaded' = TRUE
              /\ appLoads' = 1 + LoadEffectCalls(TRUE)
              /\ UNCHANGED appPending
         ELSE /\ spectralData' = NoData
              /\ loading' = TRUE
              /\ dataLoaded' = FALSE
              /\ appLoads' = 1
              /\ appPending' = appPending \cup {appInstance + 1}

\* The loadJsonFile call of instance i settles.  loadSpectralData goes on
\* in the instance that called it: the library is stored, or the error is
\* set and spectralData is null; then loading is dropped and dataLoaded is
\* set, and the effect runs again for the changed dataLoaded.  The state
\* setters of an instance that is no longer mounted do nothing.
AppLoadSettles(i, outcome, n) ==
  LET data == SampleOnLoad(LibraryUrl, Parsed(n))
      thrown == Throws(LibraryUrl, outcome)
  IN  /\ i \in appPending
      /\ appPending' = appPending \ {i}
      /\ LoadSettles(LibraryUrl, outcome, n)
      /\ IF appMounted /\ i = appInstance
         THEN /\ spectralData' = IF thrown THEN NoData ELSE data
              /\ error' = IF thrown THEN TRUE ELSE error
              /\ loading' = FALSE
              /\ dataLoaded' = TRUE
              /\ appLoads' = appLoads + LoadEffectCalls(TRUE)
         ELSE UNCHANGED <<spectralData, error, loading, dataLoaded, appLoads>>
      /\ UNCHANGED <<appMounted, appInstance>>

\* The App unmounts: the cleanup effect calls clearDataCache.  The state of
\* the instance is gone, and what its pending geo-cube fetches deliver is
\* set on no one.
AppUnmount ==
  /\ appMounted
  /\ ClearDataCache
  /\ appMounted' = FALSE
  /\ appLoads' = 0
  /\ spectralData' = NoData
  /\ dataLoaded' = FALSE
  /\ loading' = FALSE
  /\ error' = FALSE
  /\ geoValues' = NoGeo
  /\ loadingGeo' = FALSE
  /\ geoInflight' = EmptyBag
  /\ UNCHANGED <<appInstance, appPending>>
  /\ UNCHANGED <<phaseAngle, currentImage, clickedPosition, clickPosition,
                 loadListener, imgComplete, layout, imgNatural, imgInflight,
                 event>>

AppInit ==
  /\ appMounted = FALSE
  /\ appInstance = 0
  /\ appPending = {}
  /\ appLoads = 0
  /\ spectralData = NoData
  /\ dataLoaded = FALSE
  /\ loading = FALSE
  /\ error = FALSE

vars == <<uiVars, loadVars, geoVars, plotVars, sampleVars, appVars>>

(***************************************************************************)
(* Spec: the image panel.                                                  *)
(***************************************************************************)
Init == PanelInit /\ LoadInit /\ GeoInit /\ PlotInit /\ SampleInit /\ AppInit

Next ==
  \/ \E c \in Clicks : Click(c[1], c[2]) /\ UNCHANGED <<loadVars, geoVars, plotVars, sampleVars, appVars>>
  \/ \E p \in Phases : SetPhase(p) /\ UNCHANGED <<loadVars, geoVars, plotVars, sampleVars, appVars>>
  \/ \E d \in DisplaySizes : Resize(d) /\ UNCHANGED <<loadVars, geoVars, plotVars, sampleVars, appVars>>
  \/ \E r \in BagToSet(geoInflight), ok \in BOOLEAN :
       GeoDone(r, ok) /\ UNCHANGED <<loadVars, geoVars, plotVars, sampleVars, appVars>>
  \/ \E p \in BagToSet(imgInflight), ok \in BOOLEAN, complete \in BOOLEAN,
        nat \in NaturalSizes :
       ImageFetched(p, ok, complete, nat) /\ UNCHANGED <<loadVars, geoVars, plotVars, sampleVars, appVars>>
  \/ \E nat \in NaturalSizes : ImgLoad(nat) /\ UNCHANGED <<loadVars, geoVars, plotVars, sampleVars, appVars>>

Spec == Init /\ [][Next]_vars

(***************************************************************************)
(* SpecLoad: the data loader under any callers.                            *)
(***************************************************************************)
LoadNext ==
  \/ \E u \in Urls : LoadJsonFile(u) /\ UNCHANGED <<uiVars, geoVars, plotVars, sampleVars, appVars>>
  \/ \E u \in BagToSet(pending), o \in Outcomes, n \in LibraryLengths :
       LoadSettles(u, o, n) /\ UNCHANGED <<uiVars, geoVars, plotVars, sampleVars, appVars>>
  \/ ClearDataCache /\ UNCHANGED <<uiVars, geoVars, plotVars, sampleVars, appVars>>

SpecLoad == Init /\ [][LoadNext]_vars

(***************************************************************************)
(* SpecGeo: the geo-cube decoder under any caller.                         *)
(***************************************************************************)
GeoNext ==
  \/ \E len \in BufferLengths, s \in Seeds :
       ParseCall(len, s) /\ UNCHANGED <<uiVars, loadVars, plotVars, sampleVars, appVars>>
  \/ \E len \in ArrayLengths, s \in Seeds, x \in GeoCoords, y \in GeoCoords,
        band \in GeoBands :
       LookupCall(len, s, x, y, band) /\ UNCHANGED <<uiVars, loadVars, plotVars, sampleVars, appVars>>
  \/ \E fetchOk \in BOOLEAN, len \in BufferLengths, s \in Seeds,
        x \in GeoCoords, y \in GeoCoords :
       ExtractCall(fetchOk, len, s, x, y) /\ UNCHANGED <<uiVars, loadVars, plotVars, sampleVars, appVars>>
  \/ RenderCall /\ UNCHANGED <<uiVars, loadVars, plotVars, sampleVars, appVars>>

SpecGeo == Init /\ [][GeoNext]_vars

(***************************************************************************)
(* SpecPlot: the spectral lookup under any caller.                         *)
(***************************************************************************)
PlotNext ==
  \/ \E angleArray \in AngleArrays,
        targetAngle \in IncTargets \cup EmiTargets \cup AzTargets :
       FindCall(angleArray, targetAngle) /\ UNCHANGED <<uiVars, loadVars, geoVars, sampleVars, appVars>>
  \/ \E name \in PlotLibraryNames, i \in IncTargets, e \in EmiTargets,
        a \in AzTargets, c \in Cases :
       PlotCall(name, i, e, a, c) /\ UNCHANGED <<uiVars, loadVars, geoVars, sampleVars, appVars>>
  \/ \E name \in PlotLibraryNames, i \in IncTargets, e \in EmiTargets,
        a \in AzTargets, selected \in SUBSET Cases :
       TracesCall(name, i, e, a, selected) /\ UNCHANGED <<uiVars, loadVars, geoVars, sampleVars, appVars>>

SpecPlot == Init /\ [][PlotNext]_vars

(***************************************************************************)
(* SpecSample: the spectral sampler under any caller.                      *)
(***************************************************************************)
SampleNext ==
  \E n \in SampleLengths, maxPoints \in SampleBudgets :
    SampleCall(n, maxPoints)
    /\ UNCHANGED <<uiVars, loadVars, geoVars, plotVars, appVars>>

SpecSample == Init /\ [][SampleNext]_vars

(***************************************************************************)
(* SpecApp: the loads of the App over its mounts: the spectral-library     *)
(* load effect, the cleanup effect, and fetchGeoValues under any caller.   *)
(***************************************************************************)
AppNext ==
  \/ AppMount /\ UNCHANGED <<uiVars, geoVars, plotVars, sampleVars>>
  \/ \E i \in appPending, o \in Outcomes, n \in LibraryLengths :
       AppLoadSettles(i, o, n) /\ UNCHANGED <<uiVars, geoVars, plotVars, sampleVars>>
  \/ AppUnmount /\ UNCHANGED <<geoVars, plotVars, sampleVars>>
  \/ \E x \in FetchCoords, y \in FetchCoords :
       /\ appMounted
       /\ FetchGeoValues(x, y)
       /\ UNCHANGED <<loadVars, geoVars, plotVars, sampleVars, appVars>>
  \/ \E r \in BagToSet(geoInflight), ok \in BOOLEAN :
       /\ appMounted
       /\ GeoDone(r, ok)
       /\ UNCHANGED <<loadVars, geoVars, plotVars, sampleVars, appVars>>

SpecApp == Init /\ [][AppNext]_vars

(***************************************************************************)
(* Claims about the image panel (Spec).                                    *)
(***************************************************************************)
\* the step is a click at a position the img element, mounted with its
\* sizes as they are before the step, has inside its displayed bounds
ClickInside ==
  /\ event'.n = event.n + 1
  /\ event'.kind = "click"
  /\ currentImage.present
  /\ 0 <= event'.relX /\ event'.relX <= offsetSize[1]
  /\ 0 <= event'.relY /\ event'.relY <= offsetSize[2]

\* the step is a click outside the displayed bounds
ClickOutside ==
  /\ event'.n = event.n + 1
  /\ event'.kind = "click"
  /\ \/ event'.relX < 0 \/ event'.relX > offsetSize[1]
     \/ event'.relY < 0 \/ event'.relY > offsetSize[2]

AllPositive == /\ offsetSize[1] > 0 /\ offsetSize[2] > 0
               /\ imgNatural[1] > 0 /\ imgNatural[2] > 0

\* v is a whole number in lo .. hi
NumIn(v, lo, hi) == v[2] = 1 /\ lo <= v[1] /\ v[1] <= hi

\* C1: every in-bounds click on an image whose displayed and natural sizes
\* are positive that places a marker stores in the marker, and passes to
\* onImageClick (which stores it in clickedPosition), a native coordinate
\* with 0 <= naturalX <= naturalWidth - 1 and 0 <= naturalY <=
\* naturalHeight - 1, clicks on the right and bottom edge included.
C1_NativeInRange ==
  [][(ClickInside /\ AllPositive /\ event'.outcome = "placed") =>
       /\ clickPosition'.present
       /\ NumIn(clickPosition'.naturalX, 0, imgNatural[1] - 1)
       /\ NumIn(clickPosition'.naturalY, 0, imgNatural[2] - 1)
       /\ NumIn(event'.cbX, 0, imgNatural[1] - 1)
       /\ NumIn(event'.cbY, 0, imgNatural[2] - 1)
       /\ clickedPosition' = [present |-> TRUE, x |-> event'.cbX, y |-> event'.cbY]]_vars

\* a click on the bottom-right corner of the displayed image placed a marker
\* on the last native column and row
C1_Witness ==
  /\ event.kind = "click" /\ event.outcome = "placed"
  /\ event.disp[1] > 0 /\ event.relX = event.disp[1]
  /\ event.disp[2] > 0 /\ event.relY = event.disp[2]
  /\ event.nat[1] > 0 /\ event.nat[2] > 0
  /\ clickPosition.present
  /\ clickPosition.naturalX = Num(event.nat[1] - 1)
  /\ clickPosition.naturalY = Num(event.nat[2] - 1)
  /\ clickedPosition.x = Num(event.nat[1] - 1)

\* the marker is within 10 pixels of (relX, relY) on both axes
MarkerWithinTen(relX, relY) ==
  /\ clickPosition.present
  /\ IsNum(clickPosition.displayX) /\ IsNum(clickPosition.displayY)
  /\ Abs(clickPosition.displayX[1] - relX * clickPosition.displayX[2])
       < 10 * clickPosition.displayX[2]
  /\ Abs(clickPosition.displayY[1] - relY * clickPosition.displayY[2])
       < 10 * clickPosition.displayY[2]

\* C3: an in-bounds click clears the marker, and calls onImageClick(null,
\* null, null) so that the parent drops clickedPosition and geoValues, if and
\* only if a marker exists and the click is less than 10 pixels from it on
\* both axes; every other in-bounds click puts a new marker for the click in
\* its place (shown at the click, or at the projection of its native
\* coordinate once the effect has run) and gives onImageClick the click's
\* native coordinate.
C3_ToggleRule ==
  [][ClickInside =>
       IF MarkerWithinTen(event'.relX, event'.relY)
       THEN /\ event'.outcome = "cleared"
            /\ clickPosition' = NoMarker
            /\ clickedPosition' = NoPosition
            /\ geoValues' = NoGeo
       ELSE /\ event'.outcome = "placed"
            /\ event'.cbX = NaturalCoord(event'.relX, offsetSize[1], imgNatural[1])
            /\ event'.cbY = NaturalCoord(event'.relY, offsetSize[2], imgNatural[2])
            /\ clickedPosition' = [present |-> TRUE, x |-> event'.cbX, y |-> event'.cbY]
            /\ clickPosition'.present
            /\ clickPosition'.naturalX = event'.cbX
            /\ clickPosition'.naturalY = event'.cbY
            /\ \/ /\ clickPosition'.displayX = Num(event'.relX)
                  /\ clickPosition'.displayY = Num(event'.relY)
               \/ /\ clickPosition'.displayX =
                       Project(event'.cbX, offsetSize[1], imgNatural[1])
                  /\ clickPosition'.displayY =
                       Project(event'.cbY, offsetSize[2], imgNatural[2])]_vars

\* a click cleared the marker and the parent's state with it
C3_Witness ==
  /\ event.kind = "click" /\ event.outcome = "cleared"
  /\ clickPosition = NoMarker
  /\ clickedPosition = NoPosition
  /\ geoValues = NoGeo

\* C4: a click outside the displayed bounds changes nothing: the marker stays
\* as it is, onImageClick is not called, and clickedPosition, geoValues, the
\* loading flag and the fetches in flight are unchanged.
C4_OutsideRejected ==
  [][ClickOutside =>
       /\ event'.outcome \in {"outside", "ignored"}
       /\ event'.fetches = 0
       /\ UNCHANGED <<clickPosition, clickedPosition, geoValues, loadingGeo,
                      geoInflight, loadListener>>]_vars

\* an existing marker survived a click outside the image
C4_Witness ==
  /\ event.kind = "click" /\ event.outcome = "outside"
  /\ clickPosition.present
  /\ clickedPosition.present

\* the step is a click at the position of the previous user event, a click
\* too, with the image shown at the same sizes and the marker and the
\* parent's position still those of that click
ClickRepeated ==
  /\ ClickInside
  /\ event.kind = "click"
  /\ event'.relX = event.relX /\ event'.relY = event.relY
  /\ offsetSize = event.disp /\ imgNatural = event.nat

\* C2: the toggle is a 2-cycle.  A click at the position of the click that
\* has just placed the marker clears the marker, whatever the ratio of
\* displayed to natural size and wherever the click is, and a click at the
\* position of the click that has just cleared it places a marker again.
C2_ToggleTwoCycle ==
  [][ClickRepeated =>
       /\ (/\ event.outcome = "placed"
           /\ clickPosition.present
           /\ clickedPosition = [present |-> TRUE, x |-> event.cbX, y |-> event.cbY])
          => (event'.outcome = "cleared" /\ ~clickPosition'.present)
       /\ (event.outcome = "cleared" /\ ~clickPosition.present)
          => (event'.outcome = "placed" /\ clickPosition'.present)]_vars

\* the marker shows at the projection of its native coordinate for the
\* image's current displayed size
MarkerProjected ==
  /\ SameNum(clickPosition.displayX,
             Project(clickPosition.naturalX, offsetSize[1], imgNatural[1]))
  /\ SameNum(clickPosition.displayY,
             Project(clickPosition.naturalY, offsetSize[2], imgNatural[2]))

\* C5: after the displayed size of the image has changed while a marker with
\* a native coordinate exists, the marker's display coordinates are the
\* projection of its native coordinates for the new displayed size.
C5_ReprojectedOnResize ==
  (/\ event.kind = "resize"
   /\ currentImage.present
   /\ clickPosition.present
   /\ IsNum(clickPosition.naturalX) /\ IsNum(clickPosition.naturalY)
   /\ offsetSize[1] > 0 /\ offsetSize[2] > 0
   /\ imgNatural[1] > 0 /\ imgNatural[2] > 0)
  => MarkerProjected

\* C6: a click on an image whose displayed width or height is 0 produces no
\* mapping: it places no marker and gives onImageClick no coordinates.
C6_FailsClosed ==
  (event.kind = "click" /\ (event.disp[1] = 0 \/ event.disp[2] = 0))
  => event.outcome # "placed"

\* C7: once every geo-cube fetch has settled, the reading shown for a marked
\* position is the one for the selected phase angle and the marker's (x, y).
C7_NoStaleReading ==
  (geoInflight = EmptyBag /\ clickedPosition.present)
  => /\ geoValues.present
     /\ geoValues.phase = phaseAngle * 5
     /\ geoValues.x = clickedPosition.x
     /\ geoValues.y = clickedPosition.y

\* C8: a click that places a marker starts at most one geo-cube fetch.
C8_OneFetchPerClick ==
  (event.kind = "click" /\ event.outcome = "placed") => event.fetches <= 1

\* the same JavaScript number, NaN standing for NaN
SameValue(a, b) == SameNum(a, b) \/ (~IsNum(a) /\ ~IsNum(b))

\* the marker's display coordinates are its native coordinates times the
\* scale of the img element, as updateImageSize computes them
DisplayDerived ==
  /\ SameValue(clickPosition.displayX,
               Project(clickPosition.naturalX, offsetSize[1], imgNatural[1]))
  /\ SameValue(clickPosition.displayY,
               Project(clickPosition.naturalY, offsetSize[2], imgNatural[2]))

\* the step moves the phase-angle slider while a position is marked
PhaseChangeWithMarker ==
  /\ event'.n = event.n + 1
  /\ event'.kind = "phase"
  /\ clickedPosition.present

\* the step ends with the img element having loaded a src it had not
\* loaded before, while a position is marked
NewSrcLoaded ==
  /\ clickedPosition.present
  /\ currentImage'.present /\ imgComplete'
  /\ (currentImage' # currentImage \/ ~imgComplete)

\* C26: the native coordinate is the source of truth across phase-angle
\* changes: when the phase angle changes while a marker exists, the
\* marker's native (x, y) is unchanged and geo values are fetched again for
\* the same (x, y) under the new phase angle; and once the img element has
\* loaded the new src at positive sizes, the marker's display position is
\* the projection of that native coordinate.
C26_NativeDurable ==
  [][/\ PhaseChangeWithMarker
        => /\ clickedPosition' = clickedPosition
           /\ clickPosition' = clickPosition
           /\ geoInflight' = geoInflight
                (+) One([phase |-> phaseAngle' * 5,
                         x |-> clickedPosition.x, y |-> clickedPosition.y])
     /\ NewSrcLoaded
        => /\ clickedPosition' = clickedPosition
           /\ AllPositive'
              => /\ clickPosition'.present
                 /\ clickPosition'.naturalX = clickedPosition.x
                 /\ clickPosition'.naturalY = clickedPosition.y
                 /\ DisplayDerived']_vars

\* the slider was moved with a marker in place, the image of the new phase
\* angle has loaded, and the fetch for the new phase angle is in flight
C26_Witness ==
  /\ event.kind = "phase" /\ phaseAngle # 0
  /\ currentImage = [present |-> TRUE, phase |-> phaseAngle]
  /\ imgComplete /\ AllPositive
  /\ clickedPosition.present /\ clickPosition.present
  /\ IsNum(clickedPosition.x) /\ clickedPosition.x[1] > 0
  /\ clickPosition.naturalX = clickedPosition.x
  /\ MarkerProjected
  /\ BagIn([phase |-> phaseAngle * 5,
            x |-> clickedPosition.x, y |-> clickedPosition.y], geoInflight)

\* C27: downstream state is dropped with the marker: a click that clears
\* the marker sets clickedPosition and geoValues to null, and geoValues
\* stays null for as long as no marker exists, also when a geo-cube fetch
\* started before the clearing settles after it.
C27_DroppedWithMarker ==
  [][/\ (/\ event'.n = event.n + 1
         /\ event'.kind = "click" /\ event'.outcome = "cleared")
        => (~clickedPosition'.present /\ ~geoValues'.present)
     /\ (~clickedPosition.present /\ ~clickedPosition'.present /\ ~geoValues.present)
        => ~geoValues'.present]_vars

\* C30: loadingGeo is true exactly while at least one geo-cube fetch is in
\* flight: it does not become false before the last outstanding fetch has
\* settled, and it is false whenever none is outstanding.
C30_LoadingWhileInFlight ==
  loadingGeo <=> geoInflight # EmptyBag

(***************************************************************************)
(* Claims about the data loader (SpecLoad).                                *)
(***************************************************************************)
\* C9: between two cache clears, the calls of loadJsonFile for one url,
\* calls that overlap an earlier call's fetch included, start at most one
\* fetch of that url as long as none of them has failed.
C9_OneFetchPerUrl ==
  \A u \in Urls : failed[u] = 0 => fetched[u] <= 1

\* C10: every spectral library handed to a caller, by a first load, a cache
\* hit or a reload after clearDataCache, is sampleData applied exactly once
\* to the parsed document: a cached library does not go through sampleData
\* again.
C10_SampledOnce ==
  \A r \in returned :
    r.url = LibraryUrl =>
      /\ r.data.passes = 1
      /\ r.data.value = SampleData(Library(r.data.source), SampleMaxPoints)

\* a caller got the cached library of a 3-wavelength document, on which a
\* second sampleData would have shown, and another got a reload after a clear
C10_Witness ==
  /\ \E r \in returned :
       /\ r.url = LibraryUrl /\ r.hit /\ r.data.source = 3
       /\ SampleData(r.data.value, SampleMaxPoints) # r.data.value
  /\ nClears = 1
  /\ \E r \in returned : r.url = LibraryUrl /\ ~r.hit /\ r.data.source = 2

\* C28: a loadJsonFile call that fails (HTTP status not ok, JSON parse
\* error, or the memory check after sampling) rethrows to its caller,
\* returning no value, and leaves the cache with no entry for its url and
\* with the entries of the other urls unchanged, so that a later call for
\* the url fetches again.
C28_FailureLeavesNoEntry ==
  [][\A u \in Urls :
       failed'[u] = failed[u] + 1
       => /\ returned' = returned
          /\ ~dataCache'[u].present
          /\ \A o \in Urls \ {u} : dataCache'[o] = dataCache[o]]_vars

(***************************************************************************)
(* Claims about the geo-cube decoder (SpecGeo).                            *)
(***************************************************************************)
\* C11: parseGeoCube fails and returns no cube whenever the buffer's byte
\* length differs from 9*681*681*4, shorter or longer; only a buffer of
\* exactly that length yields a cube, and the cube it yields is full.
C11_ExactLengthOnly ==
  geoCall.kind = "parse" =>
    /\ geoCall.result.thrown <=> geoCall.buffer.byteLength # 9 * 681 * 681 * 4
    /\ geoCall.result.thrown => geoCall.result.data = NoArray
    /\ ~geoCall.result.thrown => geoCall.result.data.length = 9 * 681 * 681

\* v is a whole number in lo .. hi
WholeIn(v, lo, hi) == IsNum(v) /\ v[2] = 1 /\ v[1] >= lo /\ v[1] <= hi

\* C12: for whole x, y in [0, 680] and band in [0, 8] the flat index used by
\* getGeoValue determines the triple: band = index div 681^2,
\* y = (index mod 681^2) div 681, x = index mod 681.
C12_IndexRoundTrip ==
  (/\ geoCall.kind = "lookup"
   /\ WholeIn(geoCall.x, 0, 680) /\ WholeIn(geoCall.y, 0, 680)
   /\ WholeIn(geoCall.band, 0, 8))
  => /\ IsNum(geoCall.result.index)
     /\ LET index == geoCall.result.index[1]
        IN  /\ geoCall.band = Num(index \div (681 * 681))
            /\ geoCall.y = Num((index % (681 * 681)) \div 681)
            /\ geoCall.x = Num(index % 681)

\* a lookup in the last band with x and y different and not zero
C12_Witness ==
  /\ geoCall.kind = "lookup"
  /\ geoCall.x = Num(1) /\ geoCall.y = Num(680) /\ geoCall.band = Num(8)
  /\ geoCall.result.index = Num(8 * 681 * 681 + 680 * 681 + 1)

\* clamp(floor(v), 0, hi) for a number v
FloorClamped(v, hi) ==
  LET whole == CHOOSE k \in -2 .. hi + 2 : k * v[2] <= v[1] /\ v[1] < (k + 1) * v[2]
  IN  IF whole < 0 THEN 0 ELSE IF whole > hi THEN hi ELSE whole

CubeValue(call, band) ==
  Float32(call.buffer.seed, band * 681 * 681 + call.y[1] * 681 + call.x[1])

\* C14: a successful extractGeoValues returns six geometry fields read from
\* the same cube at the same (x, y): latitude from band 0, longitude from
\* band 1, phase from band 4, incidence from band 5, emission from band 6
\* and azimuth from band 7; and the incidence, emission and azimuth of the
\* reading are the angles the spectral lookup is given.
C14_SixFields ==
  /\ (/\ geoCall.kind = "extract" /\ ~geoCall.result.error
      /\ WholeIn(geoCall.x, 0, 680) /\ WholeIn(geoCall.y, 0, 680))
     => /\ geoCall.result.lat = CubeValue(geoCall, 0)
        /\ geoCall.result.lon = CubeValue(geoCall, 1)
        /\ geoCall.result.phase = CubeValue(geoCall, 4)
        /\ geoCall.result.incidence = CubeValue(geoCall, 5)
        /\ geoCall.result.emis = CubeValue(geoCall, 6)
        /\ geoCall.result.azimuth = CubeValue(geoCall, 7)
  /\ (/\ geoCall.kind = "render" /\ ~geoCall.reading.error
      /\ geoCall.reading.incidence.kind = "float")
     => /\ geoCall.result.incidenceAngle = geoCall.reading.incidence
        /\ geoCall.result.emissionAngle = geoCall.reading.emis
        /\ geoCall.result.azimuthAngle.kind = "float"

(***************************************************************************)
(* Claims about the spectral lookup (SpecPlot).                            *)
(***************************************************************************)
\* the least member of a non-empty set of indices
Least(S) == CHOOSE i \in S : \A j \in S : i <= j

\* the index the angle matcher is to return for a non-empty array: the
\* first index within 1e-6 of the target when there is one, otherwise the
\* earliest index at the minimum distance
ClosestIndex(angles, target) ==
  LET indices == 0 .. Len(angles) - 1
      dist(i) == AbsDiff(angles[i + 1], target)
      near == {i \in indices : AngleLess(dist(i), <<0, 10>>)}
      best == {i \in indices : \A j \in indices : ~AngleLess(dist(j), dist(i))}
  IN  IF near # {} THEN Least(near) ELSE Least(best)

\* C16: for every non-empty angle array and target, findClosestAngleIndex
\* returns the first index within 1e-6 of the target when one exists, and
\* otherwise the smallest index at the minimum distance; on [0,30,60,90]
\* the targets 29, 30.0000001 and 45 all give 1.
C16_ClosestMatch ==
  (plotCall.kind = "find" /\ plotCall.angleArray # <<>>)
  => /\ plotCall.result = ClosestIndex(plotCall.angleArray, plotCall.targetAngle)
     /\ (/\ plotCall.angleArray = <<Deg(0), Deg(30), Deg(60), Deg(90)>>
         /\ plotCall.targetAngle \in {Deg(29), <<30, 1>>, Deg(45)})
        => plotCall.result = 1

\* the target lies within the tolerance of both angles and nearer to the
\* second: the first is returned
C16_Witness ==
  /\ plotCall.kind = "find"
  /\ plotCall.angleArray = << <<30, 5>>, Deg(30) >>
  /\ plotCall.targetAngle = <<30, 3>>
  /\ plotCall.result = 0

\* C17: findClosestAngleIndex with an empty angle array fails instead of
\* returning a default index, and so createSpectralPlotData selects no
\* spectrum row when an angle axis is empty.
C17_EmptyArrayFails ==
  /\ (plotCall.kind = "find" /\ plotCall.angleArray = <<>>) => plotCall.thrown
  /\ (/\ plotCall.kind = "plot"
      /\ \E axis \in {"inc", "emi", "daz"} :
           PlotLibrary(plotCall.library)[axis] = <<>>)
     => plotCall.result.thrown /\ plotCall.result.spectralValues = <<>>

\* every angle axis of the library has a value
AxesNotEmpty(name) ==
  \A axis \in {"inc", "emi", "daz"} : PlotLibrary(name)[axis] # <<>>

\* C18: the row selected by createSpectralPlotData is
\* incIdx*(|emi|*|daz|) + emiIdx*|daz| + dazIdx for the three independent
\* closest-angle matches; on the 4 x 4 x 12 axes the targets (60, 30, 210)
\* give row 115; and processSpectralData gives the same index to the
\* combination of the three matched angles.
C18_RowIndex ==
  (plotCall.kind = "plot" /\ AxesNotEmpty(plotCall.library))
  => LET lib == PlotLibrary(plotCall.library)
         incIdx == ClosestIndex(lib.inc, plotCall.incidenceAngle)
         emiIdx == ClosestIndex(lib.emi, plotCall.emissionAngle)
         dazIdx == ClosestIndex(lib.daz, plotCall.azimuthAngle)
         row == plotCall.result.angleIndex
         combinations == ProcessSpectralData(lib).angleCombinations
     IN  /\ row = incIdx * (Len(lib.emi) * Len(lib.daz)) + emiIdx * Len(lib.daz) + dazIdx
         /\ \E n \in DOMAIN combinations :
              /\ combinations[n].index = row
              /\ combinations[n].incidence = lib.inc[incIdx + 1]
              /\ combinations[n].emission = lib.emi[emiIdx + 1]
              /\ combinations[n].azimuth = lib.daz[dazIdx + 1]
         /\ (/\ plotCall.library = "full" /\ plotCall.incidenceAngle = Deg(60)
             /\ plotCall.emissionAngle = Deg(30) /\ plotCall.azimuthAngle = Deg(210))
            => row = 115

C18_Witness ==
  /\ plotCall.kind = "plot" /\ plotCall.library = "full"
  /\ plotCall.incidenceAngle = Deg(60) /\ plotCall.emissionAngle = Deg(30)
  /\ plotCall.azimuthAngle = Deg(210)
  /\ plotCall.result.angleIndex = 115

\* C19: when the computed row index is at or past the case table's row
\* count, the row resolution fails with an error that reaches the caller
\* and no spectrum is produced.
C19_RowPastTableFails ==
  (/\ plotCall.kind = "plot"
   /\ plotCall.result.angleIndex
        >= Len(PlotLibrary(plotCall.library)[plotCall.caseType]))
  => plotCall.result.thrown /\ plotCall.result.data = <<>>

\* a row as it is plotted over an axis of n wavelengths
RowOnAxis(row, n) == [i \in 1 .. n |-> IF i \in DOMAIN row THEN row[i] ELSE 0]

\* C20: case selection returns the row of the table named by the case at the
\* resolved index, and the empty sequence, without an error, when that
\* table has no row there; the other cases are not affected: every selected
\* case whose table has the row is plotted with that row.
C20_CaseSelection ==
  /\ plotCall.kind = "plot"
     => LET table == PlotLibrary(plotCall.library)[plotCall.caseType]
            row == plotCall.result.angleIndex
        IN  /\ ~plotCall.result.thrown
            /\ plotCall.result.spectralValues =
                 IF row + 1 \in DOMAIN table THEN table[row + 1] ELSE <<>>
  /\ (plotCall.kind = "traces" /\ AxesNotEmpty(plotCall.library))
     => LET lib == PlotLibrary(plotCall.library)
            row == ClosestIndex(lib.inc, plotCall.incidenceAngle)
                     * (Len(lib.emi) * Len(lib.daz))
                   + ClosestIndex(lib.emi, plotCall.emissionAngle) * Len(lib.daz)
                   + ClosestIndex(lib.daz, plotCall.azimuthAngle)
        IN  \A c \in plotCall.selectedCases :
              row + 1 \in DOMAIN lib[c]
              => /\ c \in DOMAIN plotCall.result
                 /\ plotCall.result[c].y = RowOnAxis(lib[c][row + 1], Len(lib.wavelength))

\* the no_ch4 table of the full library ends before row 115
C20_Witness ==
  /\ plotCall.kind = "plot" /\ plotCall.library = "full"
  /\ plotCall.caseType = "no_ch4"
  /\ plotCall.result.angleIndex = 115
  /\ plotCall.result.spectralValues = <<>>

\* C29: createSpectralPlotData returns exactly one (wavelength, intensity)
\* pair per entry of the wavelength axis, in axis order: pair i has
\* wavelength i and as intensity entry i of the selected row, or 0 when the
\* row has no entry i or the entry is falsy; the output has the length of
\* the wavelength axis whatever the length of the row.
C29_OnePairPerWavelength ==
  plotCall.kind = "plot"
  => LET wavelength == PlotLibrary(plotCall.library).wavelength
         row == plotCall.result.spectralValues
         data == plotCall.result.data
     IN  /\ Len(data) = Len(wavelength)
         /\ \A i \in 1 .. Len(wavelength) :
              /\ data[i].wavelength = wavelength[i]
              /\ data[i].intensity = IF i \in DOMAIN row THEN row[i] ELSE 0

\* a row longer than the axis, a row shorter than it, and a row with zeros
C29_Witness ==
  /\ plotCall.kind = "plot" /\ plotCall.library = "ragged"
  /\ Len(plotCall.result.spectralValues) \in {2, 4}
  /\ Len(plotCall.result.data) = 3
  /\ \E i \in 1 .. 3 : plotCall.result.data[i].intensity = 0

(***************************************************************************)
(* Claims about the spectral sampler (SpecSample).                         *)
(***************************************************************************)
\* the positions, counted from 0, of the wavelengths kept: wavelength i of
\* Library(n) is the number i
KeptPositions(result) == [i \in DOMAIN result.wavelength |-> result.wavelength[i] - 1]

\* C21: sampleData keeps the wavelengths at positions 0, step, 2*step, ...
\* with step = max(1, floor(N / maxPoints)), plus the final original
\* wavelength if it is not already included; for 12 wavelengths and
\* maxPoints = 4 the positions kept are exactly [0, 3, 6, 9, 11].
C21_RetainedPositions ==
  sampleCall.kind = "sample" =>
    LET n == sampleCall.n
        floorQuotient == n \div sampleCall.maxPoints
        step == IF floorQuotient > 1 THEN floorQuotient ELSE 1
        expected == {q \in 0 .. n - 1 : q % step = 0 \/ q = n - 1}
        kept == KeptPositions(sampleCall.result)
    IN  /\ {kept[i] : i \in DOMAIN kept} = expected
        /\ Len(kept) = Cardinality(expected)
        /\ \A i \in DOMAIN kept : \A j \in DOMAIN kept : i < j => kept[i] < kept[j]
        /\ (n = 12 /\ sampleCall.maxPoints = 4) => kept = <<0, 3, 6, 9, 11>>

\* C22: after sampleData every row of every case table has the length of
\* the sampled wavelength axis, and entry i of a row comes from the same
\* original position as wavelength entry i.
C22_RowsAligned ==
  sampleCall.kind = "sample" =>
    LET result == sampleCall.result
        original == Library(sampleCall.n)
    IN  \A c \in {"standard", "no_ch4", "no_haze"} :
          \A r \in DOMAIN result[c] :
            /\ Len(result[c][r]) = Len(result.wavelength)
            /\ \A i \in DOMAIN result[c][r] :
                 i \in DOMAIN result.wavelength
                 => result[c][r][i] = original[c][r][result.wavelength[i]]

\* C23: the wavelength axis returned by sampleData has at most maxPoints
\* entries, for every wavelength count and every maxPoints >= 1.
C23_PointBudget ==
  sampleCall.kind = "sample" =>
    Len(sampleCall.result.wavelength) <= sampleCall.maxPoints

(***************************************************************************)
(* Claims about the App's loads (SpecApp).                                 *)
(***************************************************************************)
\* the step settles the loadJsonFile call of the mounted instance
OwnLoadSettles ==
  appMounted /\ appInstance \in appPending /\ appInstance \notin appPending'

\* the step settles a geo-cube fetch with a failed fetch or decode
GeoFetchFails ==
  /\ appMounted'
  /\ BagCardinality(geoInflight') < BagCardinality(geoInflight)
  /\ geoValues'.present /\ geoValues'.error

C25_ClearOnUnmount ==
  [][/\ (~appMounted' /\ appInstance' > 0)
        => \A u \in Urls : ~dataCache'[u].present
     /\ (~appMounted /\ appInstance > 0 /\ appMounted')
        => fetched'[LibraryUrl] = fetched[LibraryUrl] + 1]_vars

====
